---- MODULE Spec2Model ----
(***************************************************************************)
(* Model of qp.ipynb: a Jupyter notebook whose code cells build three      *)
(* quadratic programs  minimize 1/2 x'Qx + p'x  s.t.  Gx <= h, Ax = b,     *)
(* hand each to qpsolvers.solve_qp, print the minimiser and evaluate the   *)
(* objective.  The state is the kernel's namespace (the globals the cells  *)
(* assign) and the output of the cell run last; there is one action per    *)
(* code cell, named after the cell's execution_count (In [3] .. In [12]).  *)
(* A kernel runs the cells in whatever order the user submits them, so a   *)
(* cell reads whatever the namespace holds at that moment.                 *)
(*                                                                         *)
(* Reals are exact rationals <<num, den>> (den > 0, lowest terms); the     *)
(* notebook's data are small integers and halves, so nothing is rounded    *)
(* until a value is printed.                                               *)
(***************************************************************************)
EXTENDS Integers, Sequences, FiniteSets

VARIABLES imported, Q, p, G, h, A, b, x_star, f, out

vars == <<imported, Q, p, G, h, A, b, x_star, f, out>>

----------------------------------------------------------------------------
(* Rational arithmetic (numpy float64 arithmetic, exact on this data).     *)

Abs(n) == IF n < 0 THEN -n ELSE n

RECURSIVE Gcd(_, _)
Gcd(m, n) == IF n = 0 THEN m ELSE Gcd(n, m % n)

R(n, d) ==
    LET s == IF d < 0 THEN -1 ELSE 1
        g == Gcd(Abs(n), Abs(d))
    IN  <<(s * n) \div g, (s * d) \div g>>

Zero == <<0, 1>>

RAdd(r, s) == R(r[1] * s[2] + s[1] * r[2], r[2] * s[2])

RNeg(r) == <<-r[1], r[2]>>

RSub(r, s) == RAdd(r, RNeg(s))

RMul(r, s) == R(r[1] * s[1], r[2] * s[2])

RDiv(r, s) == R(r[1] * s[2], r[2] * s[1])

RLeq(r, s) == r[1] * s[2] <= s[1] * r[2]

\* A sequence with its elements evaluated once (an array held in memory).
Arr(s) == SubSeq(s, 1, Len(s))

RECURSIVE Dot(_, _)
Dot(u, v) ==
    IF Len(u) = 0 THEN Zero
    ELSE RAdd(RMul(Head(u), Head(v)), Dot(Tail(u), Tail(v)))

MatVec(M, v) == Arr([i \in 1..Len(M) |-> Dot(M[i], v)])

Scale(c, M) ==
    Arr([i \in 1..Len(M) |-> Arr([j \in 1..Len(M[i]) |-> RMul(c, M[i][j])])])

IntVec(v) == Arr([i \in 1..Len(v) |-> R(v[i], 1)])

IntMat(M) == Arr([i \in 1..Len(M) |-> IntVec(M[i])])

----------------------------------------------------------------------------
(* The values a name of the namespace can hold besides an array.           *)

Undef == << >>

None == << <<0, 0>> >>

----------------------------------------------------------------------------
(* The arrays the cells assign.                                            *)

\* In [4]: Q = 2 * np.array([[2, 0.5], [0.5, 1]])
Q1 == Scale(R(2, 1), <<<<R(2, 1), R(1, 2)>>, <<R(1, 2), R(1, 1)>>>>)

\* In [5]: p = np.array([1.0, 1.0])
p1 == IntVec(<<1, 1>>)

\* In [6]: G = np.array([[-1.0, 0.0], [0.0, -1.0]]); h = np.array([0.0, 0.0])
G1 == IntMat(<<<<-1, 0>>, <<0, -1>>>>)

h1 == IntVec(<<0, 0>>)

\* In [7]: A = np.array([1.0, 1.0]); b = np.array([1.0])
A1 == IntVec(<<1, 1>>)

b1 == IntVec(<<1>>)

\* In [9]
Q2 == Scale(R(2, 1), IntMat(<<<<3, 1>>, <<1, 1>>>>))

p2 == IntVec(<<1, 6>>)

G2 == IntMat(<<<<-2, -3>>, <<-1, 0>>, <<0, -1>>>>)

h2 == IntVec(<<-4, 0, 0>>)

\* In [11]
Q3 == IntMat(<<<<1, -1>>, <<-1, 2>>>>)

p3 == IntVec(<<-2, -6>>)

G3 == IntMat(<<<<1, 1>>, <<-1, 2>>, <<2, 1>>>>)

h3 == IntVec(<<2, 2, 3>>)

----------------------------------------------------------------------------
(* solve_qp: "the solver, which will return the optimal solution" of       *)
(*   minimize 1/2 x'Qx + p'x  subject to  Gx <= h, Ax = b.                 *)
(* The minimiser of a convex quadratic program is the point at which, for  *)
(* some set W of inequality rows held as equalities, the stationarity      *)
(* system  [Q C'; C 0][x; mu] = [-p; d]  (C = rows of A then rows W of G,  *)
(* d = b then h on W) has a solution that satisfies every row of Gx <= h   *)
(* and has a multiplier >= 0 on every row of W.                            *)

\* Gauss-Jordan elimination on an augmented matrix; << >> when singular.
RECURSIVE Elim(_, _)
Elim(M, k) ==
    IF k > Len(M) THEN M
    ELSE LET piv == {i \in k..Len(M) : M[i][k] # Zero}
         IN  IF piv = {} THEN << >>
             ELSE LET i == CHOOSE j \in piv : \A l \in piv : j <= l
                      S == [M EXCEPT ![k] = M[i], ![i] = M[k]]
                      prow == Arr([j \in 1..Len(S[k]) |-> RDiv(S[k][j], S[k][k])])
                      red == Arr([r \in 1..Len(S) |->
                                IF r = k THEN prow
                                ELSE Arr([j \in 1..Len(S[r]) |->
                                        RSub(S[r][j], RMul(S[r][k], prow[j]))])])
                  IN  Elim(red, k + 1)

\* The solution of the square system M y = rhs, or << >>.
LinSolve(M, rhs) ==
    LET aug == Arr([i \in 1..Len(M) |-> Append(M[i], rhs[i])])
        E == Elim(aug, 1)
    IN  IF E = << >> THEN << >>
        ELSE Arr([i \in 1..Len(M) |-> E[i][Len(M) + 1]])

\* The stationarity system of the rows C, d: <<x, mu>>, or << >>.
KKT(Qm, pv, C, d) ==
    LET n == Len(Qm)
        k == Len(C)
        top == Arr([i \in 1..n |-> Qm[i] \o [j \in 1..k |-> C[j][i]]])
        bot == Arr([j \in 1..k |-> C[j] \o [l \in 1..k |-> Zero]])
        rhs == Arr([i \in 1..n |-> RNeg(pv[i])]) \o d
        y == LinSolve(top \o bot, rhs)
    IN  IF y = << >> THEN << >>
        ELSE <<SubSeq(y, 1, n), SubSeq(y, n + 1, n + k)>>

\* The elements of a set of naturals in increasing order.
RECURSIVE SortedSeq(_)
SortedSeq(S) ==
    IF S = {} THEN << >>
    ELSE LET m == CHOOSE j \in S : \A l \in S : j <= l
         IN  <<m>> \o SortedSeq(S \ {m})

Feasible(Gm, hv, x) == \A i \in 1..Len(Gm) : RLeq(Dot(Gm[i], x), hv[i])

\* The stationarity point of the working set W, or << >>.
PointOf(Qm, pv, Gm, hv, Am, bv, W) ==
    LET ws == SortedSeq(W)
        C == Am \o Arr([j \in 1..Len(ws) |-> Gm[ws[j]]])
        d == bv \o Arr([j \in 1..Len(ws) |-> hv[ws[j]]])
    IN  KKT(Qm, pv, C, d)

\* s is a stationarity point that satisfies Gx <= h with multipliers >= 0 on
\* its inequality rows (those after the Len(Am) equality rows).
IsOptimal(Gm, hv, Am, s) ==
    /\ s # << >>
    /\ Feasible(Gm, hv, s[1])
    /\ \A j \in (Len(Am) + 1)..Len(s[2]) : RLeq(Zero, s[2][j])

solve_qp(Qm, pv, Gm, hv, Am, bv) ==
    LET n == Len(Qm)
        sets == {W \in SUBSET (1..Len(Gm)) : Cardinality(W) + Len(Am) <= n}
        pts == {PointOf(Qm, pv, Gm, hv, Am, bv, W) : W \in sets}
        opt == {s \in pts : IsOptimal(Gm, hv, Am, s)}
    IN  IF opt = {} THEN None
        ELSE (CHOOSE s \in opt : TRUE)[1]

\* 0.5 * x.T @ Q @ x + p.T @ x
Objective(Qm, pv, x) ==
    RAdd(RMul(R(1, 2), Dot(x, MatVec(Qm, x))), Dot(pv, x))

----------------------------------------------------------------------------
(* print: numpy prints an array's elements rounded to 8 decimals; a Python *)
(* float prints as itself.  A printed decimal is kept as the integer       *)
(* value * 10^PrintDigits.                                                 *)

PrintDigits == 8

RECURSIVE Pow10(_)
Pow10(m) == IF m = 0 THEN 1 ELSE 10 * Pow10(m - 1)

\* <<the first m decimals of s/d (0 <= s < d) as an integer, the remainder>>
RECURSIVE Frac(_, _, _)
Frac(s, d, m) ==
    IF m = 0 THEN <<0, s>>
    ELSE LET t == s * 10
             rest == Frac(t % d, d, m - 1)
         IN  <<(t \div d) * Pow10(m - 1) + rest[1], rest[2]>>

Round8(r) ==
    LET a == Abs(r[1])
        fr == Frac(a % r[2], r[2], PrintDigits)
        t == (a \div r[2]) * Pow10(PrintDigits) + fr[1]
        u == IF 2 * fr[2] >= r[2] THEN t + 1 ELSE t
    IN  IF r[1] < 0 THEN -u ELSE u

Silent(c) == [cell |-> c, kind |-> "none", val |-> << >>]

Raised(c, e) == [cell |-> c, kind |-> e, val |-> << >>]

PrintArray(c, x) ==
    IF x = None THEN [cell |-> c, kind |-> "None", val |-> << >>]
    ELSE [cell |-> c, kind |-> "array",
          val |-> Arr([i \in 1..Len(x) |-> Round8(x[i])])]

PrintFloat(c, v) == [cell |-> c, kind |-> "float", val |-> v]

\* x_star = solve_qp(...); print(x_star) in cell c, r being the minimiser or
\* None.  The notebook does not say what the solver does with a problem that
\* has no minimiser: it either returns None, which is bound and printed, or
\* raises, which leaves x_star as it was.
Returned(c, r) ==
    IF r = None
    THEN \/ /\ x_star' = None
            /\ out' = PrintArray(c, None)
         \/ /\ x_star' = x_star
            /\ out' = Raised(c, "ValueError")
    ELSE /\ x_star' = r
         /\ out' = PrintArray(c, r)

----------------------------------------------------------------------------
(* The kernel after start-up: nothing imported, no name bound.             *)

Init ==
    /\ imported = FALSE
    /\ Q = Undef /\ p = Undef /\ G = Undef /\ h = Undef
    /\ A = Undef /\ b = Undef
    /\ x_star = Undef /\ f = Undef
    /\ out = Silent(0)

\* In [3]: import numpy as np; from qpsolvers import solve_qp
Cell3 ==
    /\ imported' = TRUE
    /\ out' = Silent(3)
    /\ UNCHANGED <<Q, p, G, h, A, b, x_star, f>>

\* In [4]: Q = 2 * np.array(...)
Cell4 ==
    IF imported
    THEN /\ Q' = Q1
         /\ out' = Silent(4)
         /\ UNCHANGED <<imported, p, G, h, A, b, x_star, f>>
    ELSE /\ out' = Raised(4, "NameError")
         /\ UNCHANGED <<imported, Q, p, G, h, A, b, x_star, f>>

\* In [5]: p = np.array([1.0, 1.0])
Cell5 ==
    IF imported
    THEN /\ p' = p1
         /\ out' = Silent(5)
         /\ UNCHANGED <<imported, Q, G, h, A, b, x_star, f>>
    ELSE /\ out' = Raised(5, "NameError")
         /\ UNCHANGED <<imported, Q, p, G, h, A, b, x_star, f>>

\* In [6]: G = ...; h = ...
Cell6 ==
    IF imported
    THEN /\ G' = G1
         /\ h' = h1
         /\ out' = Silent(6)
         /\ UNCHANGED <<imported, Q, p, A, b, x_star, f>>
    ELSE /\ out' = Raised(6, "NameError")
         /\ UNCHANGED <<imported, Q, p, G, h, A, b, x_star, f>>

\* In [7]: A = ...; b = ...
Cell7 ==
    IF imported
    THEN /\ A' = A1
         /\ b' = b1
         /\ out' = Silent(7)
         /\ UNCHANGED <<imported, Q, p, G, h, x_star, f>>
    ELSE /\ out' = Raised(7, "NameError")
         /\ UNCHANGED <<imported, Q, p, G, h, A, b, x_star, f>>

\* In [8] with the equality constraint left out of the call.
Cell8_NoEquality ==
    IF /\ imported
       /\ Q # Undef /\ p # Undef /\ G # Undef /\ h # Undef
    THEN /\ \E r \in {solve_qp(Q, p, G, h, << >>, << >>)} : Returned(8, r)
         /\ UNCHANGED <<imported, Q, p, G, h, A, b, f>>
    ELSE /\ out' = Raised(8, "NameError")
         /\ UNCHANGED <<imported, Q, p, G, h, A, b, x_star, f>>

\* In [8]: x_star = solve_qp(Q, p, G, h, A, b); print(x_star)
\* A is one-dimensional: the single equality row.
Cell8 ==
    IF /\ imported
       /\ Q # Undef /\ p # Undef /\ G # Undef /\ h # Undef
       /\ A # Undef /\ b # Undef
    THEN /\ \E r \in {solve_qp(Q, p, G, h, <<A>>, b)} : Returned(8, r)
         /\ UNCHANGED <<imported, Q, p, G, h, A, b, f>>
    ELSE /\ out' = Raised(8, "NameError")
         /\ UNCHANGED <<imported, Q, p, G, h, A, b, x_star, f>>

\* In [9]: Example 2's Q, p, G, h; x_star = solve_qp(Q, p, G, h); print(x_star)
Cell9 ==
    IF imported
    THEN /\ Q' = Q2
         /\ p' = p2
         /\ G' = G2
         /\ h' = h2
         /\ \E r \in {solve_qp(Q', p', G', h', << >>, << >>)} : Returned(9, r)
         /\ UNCHANGED <<imported, A, b, f>>
    ELSE /\ out' = Raised(9, "NameError")
         /\ UNCHANGED <<imported, Q, p, G, h, A, b, x_star, f>>

\* In [10] with the constant term of the objective left out.
Cell10_NoConstant ==
    IF x_star = Undef
    THEN /\ out' = Raised(10, "NameError")
         /\ UNCHANGED <<imported, Q, p, G, h, A, b, x_star, f>>
    ELSE IF x_star = None
    THEN /\ out' = Raised(10, "AttributeError")
         /\ UNCHANGED <<imported, Q, p, G, h, A, b, x_star, f>>
    ELSE /\ f' = Objective(Q, p, x_star)
         /\ out' = PrintFloat(10, f')
         /\ UNCHANGED <<imported, Q, p, G, h, A, b, x_star>>

\* In [10]: f = 0.5 * x_star.T @ Q @ x_star + p.T @ x_star + 2; print(f)
Cell10 ==
    IF x_star = Undef
    THEN /\ out' = Raised(10, "NameError")
         /\ UNCHANGED <<imported, Q, p, G, h, A, b, x_star, f>>
    ELSE IF x_star = None
    THEN /\ out' = Raised(10, "AttributeError")
         /\ UNCHANGED <<imported, Q, p, G, h, A, b, x_star, f>>
    ELSE /\ f' = RAdd(Objective(Q, p, x_star), R(2, 1))
         /\ out' = PrintFloat(10, f')
         /\ UNCHANGED <<imported, Q, p, G, h, A, b, x_star>>

\* In [11]: Example 3's Q, p, G, h; x_star = solve_qp(Q, p, G, h); print(x_star)
Cell11 ==
    IF imported
    THEN /\ Q' = Q3
         /\ p' = p3
         /\ G' = G3
         /\ h' = h3
         /\ \E r \in {solve_qp(Q', p', G', h', << >>, << >>)} : Returned(11, r)
         /\ UNCHANGED <<imported, A, b, f>>
    ELSE /\ out' = Raised(11, "NameError")
         /\ UNCHANGED <<imported, Q, p, G, h, A, b, x_star, f>>

\* In [12] as a copy of In [10], the constant term of Example 2 left in.
Cell12_WithConstant ==
    IF x_star = Undef
    THEN /\ out' = Raised(12, "NameError")
         /\ UNCHANGED <<imported, Q, p, G, h, A, b, x_star, f>>
    ELSE IF x_star = None
    THEN /\ out' = Raised(12, "AttributeError")
         /\ UNCHANGED <<imported, Q, p, G, h, A, b, x_star, f>>
    ELSE /\ f' = RAdd(Objective(Q, p, x_star), R(2, 1))
         /\ out' = PrintFloat(12, f')
         /\ UNCHANGED <<imported, Q, p, G, h, A, b, x_star>>

\* In [12]: f = 0.5 * x_star.T @ Q @ x_star + p.T @ x_star; print(f)
Cell12 ==
    IF x_star = Undef
    THEN /\ out' = Raised(12, "NameError")
         /\ UNCHANGED <<imported, Q, p, G, h, A, b, x_star, f>>
    ELSE IF x_star = None
    THEN /\ out' = Raised(12, "AttributeError")
         /\ UNCHANGED <<imported, Q, p, G, h, A, b, x_star, f>>
    ELSE /\ f' = Objective(Q, p, x_star)
         /\ out' = PrintFloat(12, f')
         /\ UNCHANGED <<imported, Q, p, G, h, A, b, x_star>>

Next ==
    \/ Cell3
    \/ Cell4
    \/ Cell5
    \/ Cell6
    \/ Cell7
    \/ Cell8
    \/ Cell9
    \/ Cell10
    \/ Cell11
    \/ Cell12

Spec == Init /\ [][Next]_vars

----------------------------------------------------------------------------
(* The outputs the notebook records under its cells.                       *)

\* Out [8]: [0.25 0.75]
Out8 == <<25000000, 75000000>>

\* Out [9]: [0.5 1. ]
Out9 == <<50000000, 100000000>>

\* Out [10]: 11.25
Out10 == R(1125, 100)

\* Out [11]: [0.66666667 1.33333333]
Out11 == <<66666667, 133333333>>

\* Out [12]: -8.222222222222218, to PrintDigits decimals
Out12 == -822222222

----------------------------------------------------------------------------
(* Points to compare a minimiser with: every (i/GridDen, j/GridDen) with   *)
(* |i|, |j| <= GridN.                                                      *)

GridN == 8

GridDen == 4

Grid == {<<R(i, GridDen), R(j, GridDen)>> : i, j \in (-GridN)..GridN}

\* x is feasible and no feasible grid point has a smaller objective.
BestOnGrid(Qm, pv, Gm, hv, Am, bv, x) ==
    /\ Feasible(Gm, hv, x)
    /\ MatVec(Am, x) = bv
    /\ \A y \in Grid :
          (Feasible(Gm, hv, y) /\ MatVec(Am, y) = bv)
             => RLeq(Objective(Qm, pv, x), Objective(Qm, pv, y))

Ran(c, k) == out.cell = c /\ out.kind = k

\* Cell c has just called solve_qp, whatever came of the call.
Called(c) == Ran(c, "array") \/ Ran(c, "None") \/ Ran(c, "ValueError")

----------------------------------------------------------------------------
\* The namespace holds Example 1 and In [8] has just called the solver.
Example1Solved ==
    /\ Called(8)
    /\ Q = Q1 /\ p = p1 /\ G = G1 /\ h = h1 /\ A = A1 /\ b = b1

\* C1: when In [8] has just solved the Example 1 problem (Q, p, G, h, A, b as
\* In [4]..In [7] assign them), solve_qp has returned a solution (not None),
\* x_star is exactly [1/4, 3/4], no feasible grid point has a smaller
\* objective, and the cell prints [0.25 0.75] as the notebook records.
C1_Example1 ==
    Example1Solved =>
        /\ x_star = <<R(1, 4), R(3, 4)>>
        /\ BestOnGrid(Q, p, G, h, <<A>>, b, x_star)
        /\ out = [cell |-> 8, kind |-> "array", val |-> Out8]

C1_Witness == Example1Solved /\ x_star = <<R(1, 4), R(3, 4)>> /\ out.val = Out8

\* In [9] has just called the solver.
Example2Solved == Called(9)

\* In [10] has just evaluated the objective of Example 2 at its minimiser.
Example2Valued ==
    /\ Ran(10, "float")
    /\ Q = Q2 /\ p = p2 /\ x_star = <<R(1, 2), R(1, 1)>>

\* C2: when In [9] has just run, x_star is exactly [1/2, 1], the minimiser of
\* Example 2 (no equality rows), printed as [0.5 1. ]; and when In [10] then
\* evaluates the objective at it, f = 1/2 x'Qx + p'x + 2 = 11.25.
C2_Example2 ==
    /\ Example2Solved =>
          /\ Q = Q2 /\ p = p2 /\ G = G2 /\ h = h2
          /\ x_star = <<R(1, 2), R(1, 1)>>
          /\ BestOnGrid(Q, p, G, h, << >>, << >>, x_star)
          /\ out = [cell |-> 9, kind |-> "array", val |-> Out9]
    /\ Example2Valued =>
          /\ f = R(45, 4)
          /\ out.val = Out10

C2_Witness == Example2Valued /\ G = G2 /\ h = h2 /\ f = R(45, 4)

\* In [11] has just called the solver.
Example3Solved == Called(11)

\* In [12] has just evaluated the objective of Example 3 at its minimiser.
Example3Valued ==
    /\ Ran(12, "float")
    /\ Q = Q3 /\ p = p3 /\ x_star = <<R(2, 3), R(4, 3)>>

\* C3: when In [11] has just run, x_star is exactly [2/3, 4/3], the minimiser
\* of Example 3, printed as [0.66666667 1.33333333]; and when In [12] then
\* evaluates the objective at it, f = 1/2 x'Qx + p'x = -74/9, which is
\* -8.22222222 to 8 decimals.
C3_Example3 ==
    /\ Example3Solved =>
          /\ Q = Q3 /\ p = p3 /\ G = G3 /\ h = h3
          /\ x_star = <<R(2, 3), R(4, 3)>>
          /\ BestOnGrid(Q, p, G, h, << >>, << >>, x_star)
          /\ out = [cell |-> 11, kind |-> "array", val |-> Out11]
    /\ Example3Valued =>
          /\ f = R(-74, 9)
          /\ Round8(out.val) = Out12

C3_Witness == Example3Valued /\ G = G3 /\ h = h3 /\ f = R(-74, 9)

====
